---- MODULE Spec2Model ----
(***************************************************************************)
(* Model of custom_api.py: decomposition of a time series API URL path     *)
(* into query parameters.  Strings are TLA+ strings handled character by   *)
(* character (Len, SubSeq and \o work on them), so split, strip, isdigit,  *)
(* int, strftime and the substring test are modelled by what they do.      *)
(***************************************************************************)
EXTENDS Integers, Sequences, FiniteSets, TLC

(***************************************************************************)
(* Bounds of the model.                                                    *)
(***************************************************************************)
\* largest number of path segments after the five leading ones
MaxInner == 3

(***************************************************************************)
(* Python values.                                                          *)
(***************************************************************************)
\* Python's None.  Every string of the program is a piece of a path split
\* on "/" or a date text, so none of them can equal this one.
None == "/"

\* the value carried when nothing was raised
NoError == ""

\* bool(v) for v a str or None
Truthy(v) == v # None /\ v # ""

Char(s, i) == SubSeq(s, i, i)

\* str.startswith
StartsWith(s, prefix) ==
    Len(s) >= Len(prefix) /\ SubSeq(s, 1, Len(prefix)) = prefix

\* `needle in hay` for two str: a substring test
StrContains(hay, needle) ==
    \E i \in 0..(Len(hay) - Len(needle)) : SubSeq(hay, i + 1, i + Len(needle)) = needle

\* `x in tokens` for a list
ListContains(tokens, x) == \E i \in 1..Len(tokens) : tokens[i] = x

\* list.index: position of the first element equal to x
ListIndex(tokens, x) ==
    CHOOSE i \in 1..Len(tokens) :
        tokens[i] = x /\ \A j \in 1..(i - 1) : tokens[j] # x

\* tokens.pop(tokens.index(x)): the list without the first element equal to x
PopFirst(tokens, x) ==
    LET i == ListIndex(tokens, x)
    IN  SubSeq(tokens, 1, i - 1) \o SubSeq(tokens, i + 1, Len(tokens))

\* s.split('/')
RECURSIVE Split(_)
Split(s) ==
    IF \A i \in 1..Len(s) : Char(s, i) # "/"
    THEN <<s>>
    ELSE LET i == CHOOSE k \in 1..Len(s) :
                      Char(s, k) = "/" /\ \A j \in 1..(k - 1) : Char(s, j) # "/"
         IN  <<SubSeq(s, 1, i - 1)>> \o Split(SubSeq(s, i + 1, Len(s)))

\* "/".join(seq)
RECURSIVE Join(_)
Join(seq) ==
    IF seq = <<>> THEN ""
    ELSE IF Len(seq) = 1 THEN seq[1]
    ELSE seq[1] \o "/" \o Join(Tail(seq))

IsSpace(c) == c = " "

\* str.strip
RECURSIVE Strip(_)
Strip(s) ==
    IF Len(s) = 0 THEN s
    ELSE IF IsSpace(Char(s, 1)) THEN Strip(SubSeq(s, 2, Len(s)))
    ELSE IF IsSpace(Char(s, Len(s))) THEN Strip(SubSeq(s, 1, Len(s) - 1))
    ELSE s

\* [token.strip() for token in s.split('/') if token]
Tokenize(s) ==
    LET kept == SelectSeq(Split(s), LAMBDA token : token # "")
    IN  [i \in 1..Len(kept) |-> Strip(kept[i])]

DecimalDigits == "0123456789"

IsDigitChar(c) == \E d \in 1..Len(DecimalDigits) : Char(DecimalDigits, d) = c

\* str.isdigit
IsDigit(s) == Len(s) > 0 /\ \A i \in 1..Len(s) : IsDigitChar(Char(s, i))

DigitValue(c) == (CHOOSE d \in 1..Len(DecimalDigits) : Char(DecimalDigits, d) = c) - 1

\* int(s) for a string of decimal digits
RECURSIVE ToInt(_)
ToInt(s) ==
    IF Len(s) = 0 THEN 0
    ELSE 10 * ToInt(SubSeq(s, 1, Len(s) - 1)) + DigitValue(Char(s, Len(s)))

\* decimal text of a natural number
RECURSIVE ToStr(_)
ToStr(n) ==
    IF n < 10 THEN Char(DecimalDigits, n + 1)
    ELSE ToStr(n \div 10) \o Char(DecimalDigits, (n % 10) + 1)

RECURSIVE ZeroPad(_, _)
ZeroPad(s, width) == IF Len(s) >= width THEN s ELSE ZeroPad("0" \o s, width)

\* date(year, month, day).strftime('%Y-%m-%d'), with %Y as documented
\* (zero-padded to four digits)
Strftime(year, month, day) ==
    ZeroPad(ToStr(year), 4) \o "-" \o ZeroPad(ToStr(month), 2)
        \o "-" \o ZeroPad(ToStr(day), 2)

(***************************************************************************)
(* The vocabularies.                                                       *)
(***************************************************************************)
ALLOWED_FREQUENCIES == "dwmqa"

ALLOWED_REAL_RATES == <<"rog", "yoy", "base">>

ALLOWED_AGGREGATORS == <<"eop", "avg">>

ALLOWED_FINALISERS == <<"info", "csv", "list", "pandas", "xlsx">>

(***************************************************************************)
(* class InnerPath.  A call returns a record whose err field is NoError or *)
(* names the exception raised; the list the Python code mutates in place   *)
(* is returned in the tokens field.                                        *)
(***************************************************************************)
\* date() accepts the years MINYEAR..MAXYEAR of datetime and raises
\* ValueError otherwise
as_date(year, month, day) ==
    IF Truthy(year)
    THEN IF ToInt(year) >= 1 /\ ToInt(year) <= 9999
         THEN [err |-> NoError, val |-> Strftime(ToInt(year), month, day)]
         ELSE [err |-> "ValueError: year is out of range", val |-> None]
    ELSE [err |-> NoError, val |-> year]

\* get_years with the two years put in increasing order
get_years_sorted(tokens) ==
    LET integers == SelectSeq(tokens, IsDigit)
        two      == Len(integers) = 2
        swap     == two /\ ToInt(integers[1]) > ToInt(integers[2])
        start    == IF Len(integers) \in {1, 2}
                    THEN (IF swap THEN integers[2] ELSE integers[1]) ELSE None
        tokens1  == IF Len(integers) \in {1, 2} THEN PopFirst(tokens, start) ELSE tokens
        end      == IF two THEN (IF swap THEN integers[1] ELSE integers[2]) ELSE None
        tokens2  == IF two THEN PopFirst(tokens1, end) ELSE tokens1
    IN  [start |-> start, end |-> end, tokens |-> tokens2]

\* get_years with the first integer taken as the end and the second as the start
get_years_swapped(tokens) ==
    LET integers == SelectSeq(tokens, IsDigit)
        two      == Len(integers) = 2
        start    == IF two THEN integers[2]
                    ELSE IF Len(integers) = 1 THEN integers[1] ELSE None
        tokens1  == IF Len(integers) \in {1, 2} THEN PopFirst(tokens, start) ELSE tokens
        end      == IF two THEN integers[1] ELSE None
        tokens2  == IF two THEN PopFirst(tokens1, end) ELSE tokens1
    IN  [start |-> start, end |-> end, tokens |-> tokens2]

get_years(tokens) ==
    LET integers == SelectSeq(tokens, IsDigit)
        start    == IF Len(integers) \in {1, 2} THEN integers[1] ELSE None
        tokens1  == IF Len(integers) \in {1, 2} THEN PopFirst(tokens, start) ELSE tokens
        end      == IF Len(integers) = 2 THEN integers[2] ELSE None
        tokens2  == IF Len(integers) = 2 THEN PopFirst(tokens1, end) ELSE tokens1
    IN  [start |-> start, end |-> end, tokens |-> tokens2]

\* result['start_date'], result['end_date'] from the two as_date calls
assign_dates_result(years, s, e) ==
    IF s.err # NoError
    THEN [err |-> s.err, result |-> <<>>, tokens |-> years.tokens]
    ELSE IF e.err # NoError
    THEN [err |-> e.err, result |-> <<>>, tokens |-> years.tokens]
    ELSE [err    |-> NoError,
          result |-> [start_date |-> s.val, end_date |-> e.val],
          tokens |-> years.tokens]

assign_dates_from(years) ==
    assign_dates_result(years, as_date(years.start, 1, 1), as_date(years.end, 12, 31))

assign_dates(tokens) == assign_dates_from(get_years(tokens))

assign_values(tokens, allowed_values) ==
    LET values_found == SelectSeq(allowed_values, LAMBDA p : ListContains(tokens, p))
    IN  IF Len(values_found) = 0
        THEN [err |-> NoError, val |-> None, tokens |-> tokens]
        ELSE IF Len(values_found) = 1
        THEN [err    |-> NoError,
              val    |-> values_found[1],
              tokens |-> PopFirst(tokens, values_found[1])]
        ELSE [err |-> "ValueError: values_found", val |-> None, tokens |-> tokens]

\* the test that rate and agg were both found
rate_and_agg_unchecked(rate, agg) == FALSE

rate_and_agg(rate, agg) == Truthy(rate) /\ Truthy(agg)

\* the unit name taken from the end of what is left of the tokens
unit_name_last(tokens, rate) ==
    IF Len(tokens) > 0 THEN tokens[Len(tokens)]
    ELSE IF Truthy(rate) THEN rate ELSE None

\* the unit name, from what is left of the tokens
unit_name(tokens, rate) ==
    IF Len(tokens) > 0 THEN tokens[1]
    ELSE IF Truthy(rate) THEN rate ELSE None

\* InnerPath.__init__, statement by statement, the later statements first:
\* each takes self.dict as built so far and the outcome of the call that
\* the statement makes, the token list that is left being part of it.

\* self.dict['agg'], the exclusivity test and self.dict['unit']
InnerPath_agg(dict, agg) ==
    IF agg.err # NoError THEN [err |-> agg.err, dict |-> <<>>]
    ELSE IF rate_and_agg(dict["rate"], agg.val)
    THEN [err  |-> "ValueError: Cannot combine rate and aggregation.",
          dict |-> <<>>]
    ELSE [err  |-> NoError,
          dict |-> ("unit" :> unit_name(agg.tokens, dict["rate"]))
                       @@ ("agg" :> agg.val) @@ dict]

\* self.dict['rate']
InnerPath_rate(dict, rate) ==
    IF rate.err # NoError THEN [err |-> rate.err, dict |-> <<>>]
    ELSE InnerPath_agg(("rate" :> rate.val) @@ dict,
                       assign_values(rate.tokens, ALLOWED_AGGREGATORS))

\* self.dict['fin']
InnerPath_fin(dict, fin) ==
    IF fin.err # NoError THEN [err |-> fin.err, dict |-> <<>>]
    ELSE InnerPath_rate(("fin" :> fin.val) @@ dict,
                        assign_values(fin.tokens, ALLOWED_REAL_RATES))

\* self.dict = self.assign_dates(tokens)
InnerPath_dates(dates) ==
    IF dates.err # NoError THEN [err |-> dates.err, dict |-> <<>>]
    ELSE InnerPath_fin(dates.result,
                       assign_values(dates.tokens, ALLOWED_FINALISERS))

\* InnerPath(inner_path).get_dict()
InnerPath(inner_path) == InnerPath_dates(assign_dates(Tokenize(inner_path)))

(***************************************************************************)
(* The module's functions.                                                 *)
(***************************************************************************)
get_freq(freq) ==
    IF ~StrContains(ALLOWED_FREQUENCIES, freq)
    THEN [err |-> "ValueError: Frequency is not valid", val |-> None]
    ELSE [err |-> NoError, val |-> freq]

\* mimic_custom_api, the later statements first.  Python indexes tokens
\* from 0: tokens[1], tokens[3], tokens[4] are the 2nd, 4th and 5th
\* elements, tokens[5:] starts at the 6th.

\* ctx.update(d)
mimic_custom_api_update(ctx, d) ==
    IF d.err # NoError THEN [err |-> d.err, ctx |-> <<>>]
    ELSE [err |-> NoError, ctx |-> d.dict @@ ctx]

\* the optional part
mimic_custom_api_optional(tokens, ctx) ==
    IF Len(tokens) >= 6
    THEN mimic_custom_api_update(ctx, InnerPath(Join(SubSeq(tokens, 6, Len(tokens)))))
    ELSE [err |-> NoError, ctx |-> ctx]

\* the mandatory part
mimic_custom_api_mandatory(tokens, freq) ==
    IF freq.err # NoError THEN [err |-> freq.err, ctx |-> <<>>]
    ELSE mimic_custom_api_optional(
             tokens,
             [domain |-> tokens[2], varname |-> tokens[4], freq |-> freq.val])

mimic_custom_api_tokens(tokens) ==
    IF Len(tokens) < 5 THEN [err |-> "IndexError", ctx |-> <<>>]
    ELSE mimic_custom_api_mandatory(tokens, get_freq(tokens[5]))

mimic_custom_api(p) ==
    IF ~StartsWith(p, "api/") THEN [err |-> "AssertionError", ctx |-> <<>>]
    ELSE mimic_custom_api_tokens(Tokenize(p))

\* the parameters made from the ctx that mimic_custom_api returned
call_parameters(ctx) ==
    IF "unit" \notin DOMAIN ctx THEN [err |-> "KeyError: unit", params |-> <<>>]
    ELSE [err    |-> NoError,
          params |-> [key \in {k \in {"start_date", "end_date"} : Truthy(ctx[k])}
                         |-> ctx[key]]
                     @@ [name |-> IF Truthy(ctx["unit"])
                                  THEN ctx["varname"] \o "_" \o ctx["unit"]
                                  ELSE ctx["varname"],
                         freq |-> ctx["freq"]]]

make_db_api_get_call_parameters_from(r) ==
    IF r.err # NoError THEN [err |-> r.err, params |-> <<>>]
    ELSE call_parameters(r.ctx)

make_db_api_get_call_parameters(p) ==
    make_db_api_get_call_parameters_from(mimic_custom_api(p))

(***************************************************************************)
(* The paths the model is run on.                                          *)
(***************************************************************************)
\* the leading segments followed by every list of inner segments: a
\* well-formed one, one with a frequency of two letters and one with a
\* blank domain
Prefixes ==
    { <<"api", "oil", "series", "BRENT", "m">>,
      <<"api", "oil", "series", "BRENT", "dw">>,
      <<"api", " ", "series", "BRENT", "m">> }

\* the leading segments followed by at most one inner segment: a frequency
\* outside the allowed ones, a blank frequency, a blank varname, too few
\* segments and a wrong first segment
BarePrefixes ==
    { <<"api", "oil", "series", "BRENT", "z">>,
      <<"api", "oil", "series", "BRENT", " ">>,
      <<"api", "oil", "series", " ", "m">>,
      <<"api", "oil", "series">>,
      <<"v1", "oil", "series", "BRENT", "m">> }

\* the segments that may follow
InnerSegments ==
    { "2015", "2017", "02015", "0", "csv", "rog", "yoy", "eop", "foo", "bar", " ", "" }

InnerSegmentLists ==
    UNION { [1..n -> InnerSegments] : n \in 0..MaxInner }

(***************************************************************************)
(* The script as a state machine: for a url, mimic_custom_api(url) and     *)
(* then make_db_api_get_call_parameters(url).                              *)
(***************************************************************************)
VARIABLES path, pc, tokens, result, params

vars == <<path, pc, tokens, result, params>>

Init ==
    /\ \E pre \in Prefixes \cup BarePrefixes, inner \in InnerSegmentLists :
           /\ pre \in BarePrefixes => Len(inner) <= 1
           /\ path = Join(pre \o inner)
    /\ pc = "start"
    /\ tokens = <<>>
    /\ result = [err |-> NoError, ctx |-> <<>>]
    /\ params = [err |-> NoError, params |-> <<>>]

CallMimic ==
    /\ pc = "start"
    /\ result' = mimic_custom_api(path)
    /\ tokens' = IF StartsWith(path, "api/") THEN Tokenize(path) ELSE <<>>
    /\ pc' = "decomposed"
    /\ UNCHANGED <<path, params>>

CallMakeParameters ==
    /\ pc = "decomposed"
    /\ params' = make_db_api_get_call_parameters(path)
    /\ pc' = "done"
    /\ UNCHANGED <<path, tokens, result>>

Next == CallMimic \/ CallMakeParameters

Spec == Init /\ [][Next]_vars

(***************************************************************************)
(* Vocabulary of the properties.                                           *)
(***************************************************************************)
\* mimic_custom_api has returned a result for the path
Returned == pc # "start" /\ result.err = NoError

\* mimic_custom_api has raised for the path
Raised == pc # "start" /\ result.err # NoError

\* no token of the path is blank
NoBlankToken == \A i \in 1..Len(tokens) : tokens[i] # ""

\* no token of the path is blank and the frequency is one allowed letter
PlainPath ==
    /\ NoBlankToken
    /\ Len(tokens) >= 5 => tokens[5] \in {"d", "w", "m", "q", "a"}

\* a field of a result; a key the result does not hold reads as none
Field(q, key) == IF key \in DOMAIN q THEN q[key] ELSE None

\* the tokens InnerPath works on: those of the path after the five leading
\* ones, joined and split again
InnerTokens ==
    IF Len(tokens) >= 6 THEN Tokenize(Join(SubSeq(tokens, 6, Len(tokens)))) ELSE <<>>

Range(seq) == {seq[i] : i \in 1..Len(seq)}

\* the positions of a token list that hold a word of a vocabulary
PositionsIn(toks, vocabulary) == {i \in 1..Len(toks) : toks[i] \in Range(vocabulary)}

\* the positions of a token list that hold an integer
IntegerPositions(toks) == {i \in 1..Len(toks) : IsDigit(toks[i])}

Smallest(S) == CHOOSE i \in S : \A j \in S : i <= j

\* the n-th smallest element of a set of positions
RECURSIVE Nth(_, _)
Nth(S, n) == IF n = 1 THEN Smallest(S) ELSE Nth(S \ {Smallest(S)}, n - 1)

\* d is the date text of the given month and day in the year the token names
IsDateOf(d, token, monthDay) ==
    /\ Len(d) = 10
    /\ SubSeq(d, 5, 10) = monthDay
    /\ IsDigit(SubSeq(d, 1, 4))
    /\ ToInt(SubSeq(d, 1, 4)) = ToInt(token)

(***************************************************************************)
(* The statements that the code does not meet are written for the paths    *)
(* with no blank token and, but for C2, a frequency of one allowed letter  *)
(* (PlainPath), so that what refutes C3, C5, C6, C8 and C10 owes nothing   *)
(* to the blank tokens of C9 or to the frequencies of C2.                  *)
(***************************************************************************)

(***************************************************************************)
(* C1                                                                      *)
(***************************************************************************)
HasRateAndAggToken ==
    /\ PositionsIn(InnerTokens, ALLOWED_REAL_RATES) # {}
    /\ PositionsIn(InnerTokens, ALLOWED_AGGREGATORS) # {}

\* C1: no result has both rate and agg set, and a path whose inner tokens
\* hold a word of the rate vocabulary and a word of the aggregator
\* vocabulary gets an error, never a result.
C1_RateAggExclusive ==
    /\ Returned =>
           ~(Field(result.ctx, "rate") # None /\ Field(result.ctx, "agg") # None)
    /\ (pc # "start" /\ HasRateAndAggToken) => result.err # NoError

\* one rate word and one aggregator word, nothing else wrong: the call is
\* refused by the exclusivity test
C1_Witness ==
    /\ pc = "decomposed"
    /\ PlainPath
    /\ HasRateAndAggToken
    /\ result.err = "ValueError: Cannot combine rate and aggregation."

(***************************************************************************)
(* C2                                                                      *)
(***************************************************************************)
AllowedFrequencyLetters == {"d", "w", "m", "q", "a"}

\* C2: a result is returned only when the frequency token, the 5th token
\* of the path, is one letter of d, w, m, q, a.
C2_FreqIsOneAllowedLetter ==
    (Returned /\ NoBlankToken) => tokens[5] \in AllowedFrequencyLetters

(***************************************************************************)
(* C3                                                                      *)
(***************************************************************************)
VocabularyField(key, vocabulary) ==
    LET at == PositionsIn(InnerTokens, vocabulary)
    IN  /\ (Cardinality(at) > 1) => ~Returned
        /\ (Returned /\ Cardinality(at) = 1) =>
               Field(result.ctx, key) = InnerTokens[Smallest(at)]
        /\ (Returned /\ Cardinality(at) = 0) => Field(result.ctx, key) = None

\* C3: for each of the finaliser, rate and aggregator vocabularies: no
\* inner token of the vocabulary leaves the field none, exactly one sets
\* the field to it, and more than one (different words or the same word
\* again) makes the call fail.
C3_OneTokenPerVocabulary ==
    (pc # "start" /\ PlainPath) =>
        /\ VocabularyField("fin", ALLOWED_FINALISERS)
        /\ VocabularyField("rate", ALLOWED_REAL_RATES)
        /\ VocabularyField("agg", ALLOWED_AGGREGATORS)

(***************************************************************************)
(* C4                                                                      *)
(***************************************************************************)
\* C4: in every result, with no integer token both dates are none; with
\* one, start_date is January 1 of it and end_date is none; with two,
\* start_date is January 1 of the one that comes first in the path and
\* end_date is December 31 of the one that comes second, whichever is the
\* larger and wherever the other tokens are.
C4_DatesFollowPathOrder ==
    Returned =>
        LET at    == IntegerPositions(InnerTokens)
            start == Field(result.ctx, "start_date")
            end   == Field(result.ctx, "end_date")
        IN  /\ Cardinality(at) = 0 => start = None /\ end = None
            /\ Cardinality(at) = 1 =>
                   /\ IsDateOf(start, InnerTokens[Nth(at, 1)], "-01-01")
                   /\ end = None
            /\ Cardinality(at) = 2 =>
                   /\ IsDateOf(start, InnerTokens[Nth(at, 1)], "-01-01")
                   /\ IsDateOf(end, InnerTokens[Nth(at, 2)], "-12-31")

\* two integers, the larger one first, with another token between them
C4_Witness ==
    /\ Returned
    /\ PlainPath
    /\ InnerTokens = <<"2017", "csv", "2015">>
    /\ result.ctx["start_date"] = "2017-01-01"
    /\ result.ctx["end_date"] = "2015-12-31"

(***************************************************************************)
(* C5                                                                      *)
(***************************************************************************)
\* C5: a path with more than two integer tokens in its inner path gets an
\* error, never a result.
C5_ThreeIntegersRefused ==
    (pc # "start" /\ PlainPath /\ Cardinality(IntegerPositions(InnerTokens)) > 2)
        => ~Returned

(***************************************************************************)
(* C6                                                                      *)
(***************************************************************************)
\* C6: for every path mimic_custom_api returns a result for, with or
\* without an inner path, make_db_api_get_call_parameters returns a mapping
\* with the keys name and freq, start_date iff the result has a start date
\* and end_date iff it has an end date; name is varname, followed by "_"
\* and unit when the result has a unit, and freq is the result's freq.
C6_ParametersForEveryResult ==
    (pc = "done" /\ result.err = NoError /\ PlainPath) =>
        LET q     == result.ctx
            unit  == Field(q, "unit")
            dated == {k \in {"start_date", "end_date"} : Field(q, k) # None}
        IN  /\ params.err = NoError
            /\ DOMAIN params.params = {"name", "freq"} \cup dated
            /\ params.params["name"] =
                   (IF unit = None THEN q["varname"] ELSE q["varname"] \o "_" \o unit)
            /\ params.params["freq"] = q["freq"]
            /\ \A k \in dated : params.params[k] = q[k]

(***************************************************************************)
(* C7                                                                      *)
(***************************************************************************)
\* the position of the first token equal to a field's value, if it has one
ClaimedBy(value) ==
    IF value = None THEN {}
    ELSE {Smallest({i \in 1..Len(InnerTokens) : InnerTokens[i] = value})}

\* the positions of the integers the dates were taken from
ClaimedByDates ==
    LET at == IntegerPositions(InnerTokens)
    IN  (IF Field(result.ctx, "start_date") # None THEN {Nth(at, 1)} ELSE {})
            \cup (IF Field(result.ctx, "end_date") # None THEN {Nth(at, 2)} ELSE {})

\* the positions no field has claimed
Unclaimed ==
    (1..Len(InnerTokens))
        \ (ClaimedByDates \cup ClaimedBy(Field(result.ctx, "fin"))
             \cup ClaimedBy(Field(result.ctx, "rate"))
             \cup ClaimedBy(Field(result.ctx, "agg")))

\* C7: in every result for a path with an inner path, unit is the first
\* token by position left once the year tokens, the finaliser, the rate and
\* the aggregator are taken out; with none left, unit is rate when there is
\* a rate and none otherwise.
C7_UnitIsFirstUnclaimed ==
    (Returned /\ Len(tokens) >= 6) =>
        result.ctx["unit"] =
            (IF Unclaimed # {} THEN InnerTokens[Smallest(Unclaimed)]
             ELSE Field(result.ctx, "rate"))

\* a finaliser is claimed and two tokens are left: the unit is the first
\* of the two, which is not the first of the path
C7_Witness ==
    /\ Returned
    /\ PlainPath
    /\ InnerTokens = <<"csv", "foo", "bar">>
    /\ Unclaimed = {2, 3}
    /\ result.ctx["unit"] = "foo"

(***************************************************************************)
(* C8                                                                      *)
(***************************************************************************)
Optional(value) == IF value = None THEN <<>> ELSE <<value>>

\* the year of a date text YYYY-MM-DD
YearOf(d) == IF d = None THEN None ELSE SubSeq(d, 1, Len(d) - 6)

\* api/{domain}/series/{varname}/{freq}/{rate or agg}/{start year}/{end year}/{fin}
CanonicalPath(q) ==
    Join(<<"api", q["domain"], "series", q["varname"], q["freq"]>>
            \o Optional(IF Field(q, "rate") # None THEN Field(q, "rate")
                        ELSE Field(q, "agg"))
            \o Optional(YearOf(Field(q, "start_date")))
            \o Optional(YearOf(Field(q, "end_date")))
            \o Optional(Field(q, "fin")))

QueryFields ==
    {"domain", "varname", "freq", "unit", "rate", "agg", "fin", "start_date", "end_date"}

\* decomposing the canonical path of q gives q back, field by field
Redecomposes(q) ==
    LET again == mimic_custom_api(CanonicalPath(q))
    IN  /\ again.err = NoError
        /\ \A key \in QueryFields : Field(again.ctx, key) = Field(q, key)

\* the canonical path has a place for everything q holds
FitsCanonicalPath(q) ==
    /\ Field(q, "unit") \in {None, Field(q, "rate")}
    /\ q["domain"] # "" /\ q["varname"] # "" /\ q["freq"] # ""

\* C8 as stated: every result is given back by decomposing its canonical path.
C8_EveryResultRedecomposes ==
    (Returned /\ PlainPath) => Redecomposes(result.ctx)

\* C8 as amended: a result whose unit is none or equal to its rate, and
\* whose domain, varname and freq are not empty, is given back by
\* decomposing its canonical path.
C8_FittingResultRedecomposes ==
    (Returned /\ FitsCanonicalPath(result.ctx)) => Redecomposes(result.ctx)

\* a result with an aggregator, a finaliser and two dates, read from a path
\* that is not in canonical order, given back by its canonical path
C8_Witness ==
    /\ Returned
    /\ InnerTokens = <<"2017", "csv", "2015">>
    /\ FitsCanonicalPath(result.ctx)
    /\ CanonicalPath(result.ctx) = "api/oil/series/BRENT/m/2017/2015/csv"
    /\ Redecomposes(result.ctx)

(***************************************************************************)
(* C9                                                                      *)
(***************************************************************************)
\* C9: the tokens built from the path are non-empty and have no space at
\* either end, so no empty string is taken as domain, varname or freq.
C9_TokensNonEmpty ==
    pc # "start" =>
        \A i \in 1..Len(tokens) :
            /\ tokens[i] # ""
            /\ ~IsSpace(Char(tokens[i], 1))
            /\ ~IsSpace(Char(tokens[i], Len(tokens[i])))

(***************************************************************************)
(* C10                                                                     *)
(***************************************************************************)
IsWord(token) ==
    token \in Range(ALLOWED_FINALISERS) \cup Range(ALLOWED_REAL_RATES)
                  \cup Range(ALLOWED_AGGREGATORS)

\* the inner tokens rearranged by a permutation of their positions
Rearranged(toks, perm) == [i \in 1..Len(toks) |-> toks[perm[i]]]

\* the integers of two token lists come in the same order
SameIntegerOrder(a, b) == SelectSeq(a, IsDigit) = SelectSeq(b, IsDigit)

\* at most one token is neither an integer nor a word of a vocabulary
AtMostOneFreeToken(toks) ==
    Cardinality({i \in 1..Len(toks) : ~IsDigit(toks[i]) /\ ~IsWord(toks[i])}) <= 1

\* two calls both fail or return the same
SameOutcome(a, b) ==
    IF a.err # NoError \/ b.err # NoError
    THEN a.err # NoError /\ b.err # NoError
    ELSE a.dict = b.dict

\* C10: two inner paths with the same tokens in a different order, the
\* integers in the same order and at most one free token, both fail or
\* give the same fin, rate, agg, unit and dates.
C10_OrderIndependent ==
    (pc # "start" /\ PlainPath /\ AtMostOneFreeToken(InnerTokens)) =>
        \A perm \in Permutations(1..Len(InnerTokens)) :
            SameIntegerOrder(InnerTokens, Rearranged(InnerTokens, perm)) =>
                SameOutcome(InnerPath(Join(InnerTokens)),
                            InnerPath(Join(Rearranged(InnerTokens, perm))))

====
